---- MODULE Spec2Model ----
(***************************************************************************)
(* A model of the task queue of the website expander:                      *)
(*   - src/src/utils/queue_manager.py: the PostgreSQL-backed QueueManager  *)
(*     (status mapping, add/update/select, the claim by conditional        *)
(*     update), with several workers interleaving their statements;        *)
(*   - src/ai_agents/orchestrator/orchestrator_agent.py: the JSON-file     *)
(*     queue of the OrchestratorAgent, its claim                           *)
(*     (get_next_pending_tasks), process_task and the batch driver         *)
(*     start_process.                                                      *)
(*   - src/scripts/init_data.py: create_task_queue, which populates the    *)
(*     tasks table from the services and the active locations.             *)
(* Statuses are the strings the program uses.  "NULL" stands for None.     *)
(***************************************************************************)
EXTENDS Integers, Sequences, FiniteSets, TLC

\* ------------------------------------------------------------------ bounds
\* Rows of the tasks table in the general specifications.
NumTasks == 2
\* Workers claiming concurrently.
NumWorkers == 2

NULL == "NULL"

\* ------------------------------------------------ status vocabularies
\* The application enum (models/task.py).
TaskStatus ==
    {"pending", "in_progress", "processing", "seo_complete",
     "content_complete", "assembly_complete", "published", "failed", "error"}

\* The values of the store's status enum.
PersistedStatuses ==
    {"pending", "in_progress", "seo_research_complete",
     "content_generation_complete", "page_assembly_complete",
     "published", "failed", "error"}

\* Status strings a row handed to _map_row_to_task may carry: the persisted
\* values, the application-only spellings, a value no vocabulary knows, a
\* status the orchestrator writes, and a missing status.
DbStrings ==
    PersistedStatuses \cup TaskStatus \cup {"unknown_db_status", "completed", NULL}

PYTHON_TO_DB_STATUS_MAP ==
    [k \in {"seo_complete", "content_complete", "assembly_complete"} |->
        CASE k = "seo_complete" -> "seo_research_complete"
          [] k = "content_complete" -> "content_generation_complete"
          [] k = "assembly_complete" -> "page_assembly_complete"]

\* {v: k for k, v in PYTHON_TO_DB_STATUS_MAP.items()}
DB_TO_PYTHON_STATUS_MAP ==
    [v \in {PYTHON_TO_DB_STATUS_MAP[k] : k \in DOMAIN PYTHON_TO_DB_STATUS_MAP} |->
        CHOOSE k \in DOMAIN PYTHON_TO_DB_STATUS_MAP : PYTHON_TO_DB_STATUS_MAP[k] = v]

\* dict.get(key, default)
DictGet(d, key, default) == IF key \in DOMAIN d THEN d[key] ELSE default

\* A mutant of ToDbStatus: the special case for "processing" is missing.
ToDbStatusNoProcessingCase(python_status_value) ==
    DictGet(PYTHON_TO_DB_STATUS_MAP, python_status_value, python_status_value)

\* The forward mapping of add_task and update_task_status: the map, then
\* "processing" saved as "in_progress".
ToDbStatus(python_status_value) ==
    IF python_status_value = "processing"
    THEN "in_progress"
    ELSE DictGet(PYTHON_TO_DB_STATUS_MAP, python_status_value, python_status_value)

\* PythonTaskStatus(s): the member with that value, or ValueError.
EnumOf(s) == IF s \in TaskStatus THEN s ELSE "ValueError"

\* A mutant of MapRowStatus: the ValueError is not caught.
MapRowStatusNoFallback(db_status) ==
    EnumOf(DictGet(DB_TO_PYTHON_STATUS_MAP, db_status, db_status))

\* A mutant of MapRowStatus: the row's status is not looked up in
\* DB_TO_PYTHON_STATUS_MAP.
MapRowStatusNoReverseMap(db_status) ==
    IF EnumOf(db_status) = "ValueError" THEN "error" ELSE EnumOf(db_status)

\* The status of the Task _map_row_to_task builds from a row's status.
MapRowStatus(db_status) ==
    LET python_status_str == DictGet(DB_TO_PYTHON_STATUS_MAP, db_status, db_status)
    IN  IF EnumOf(python_status_str) = "ValueError"
        THEN "error"
        ELSE EnumOf(python_status_str)

\* ------------------------------------------------------------- state
VARIABLES
    db,         \* the tasks table: task_id -> row, for the rows that exist
    wpc,        \* worker -> "idle" | "selected" (between its SELECT and its UPDATE)
                \*           | "returned" (its mark_tasks_in_progress has returned)
    selected,   \* worker -> the task_ids its get_pending_tasks returned, which it
                \*           gives to mark_tasks_in_progress ({} once that returned)
    claimed,    \* worker -> the task_ids mark_tasks_in_progress returned to it and
                \*           that were not written back to pending since
    lastCall    \* the last single-row call (add, update, map) and what it returned

dbVars == <<db, wpc, selected, claimed, lastCall>>

VARIABLES
    queue,         \* data/queue/task_queue.json: position -> [status, result]
    max_tasks_per_batch,
    concurrent_tasks,
    dpc,           \* driver -> where it is in start_process
    loaded,        \* driver -> the queue as its _load_task_queue read it (<<>> outside
                   \*           get_next_pending_tasks)
    pending_tasks, \* driver -> the task_ids get_next_pending_tasks returned
    pos,           \* driver -> position in pending_tasks of the for loop
    tasks,         \* driver -> the task_ids of the coroutines of the group
    co,            \* task -> "none" | "created" | "done": its process_task coroutine
    stage,         \* task -> the last stage the runner invoked for it (0: none)
    ret            \* task -> the status of the result process_task returned

orchVars == <<queue, max_tasks_per_batch, concurrent_tasks, dpc, loaded,
              pending_tasks, pos, tasks, co, stage, ret>>

VARIABLES
    now,        \* the clock: what datetime.now() and the store's CURRENT_TIMESTAMP give
    store,      \* "up" | "down" (get_db_connection returns None)
                \*      | "failing" (a statement raises psycopg2.Error)
    stats,      \* the dictionary the last get_queue_stats returned
    services,   \* the service_ids of the services table
    locations,  \* the zip_codes of the active rows of the locations table
    runs        \* how many times create_task_queue has run

envVars == <<now, store, stats, services, locations, runs>>

VARIABLES
    seo_research_data,  \* the task_ids that have a row in seo_research_data
    generated_content,  \* the task_ids that have a row in generated_content
    assembled_pages,    \* the task_ids that have a row in assembled_pages
    process_result,     \* what the last process_task of a stage agent returned,
                        \* with the update_task_status calls it made
    mon                 \* the task list given to the monitoring calculations and
                        \* what the last of them returned

agentVars == <<seo_research_data, generated_content, assembled_pages, process_result, mon>>

vars == <<dbVars, orchVars, agentVars, envVars>>

TaskIds == 1..NumTasks
Workers == 1..NumWorkers
\* limit=None
NoLimit == -1
\* The limits a caller passes.
Limits == {NoLimit, 0, 1, 2}

\* No timestamp (a NULL column, None).
NoTime == -1

\* A row as add_task or create_task_queue inserts it at current_time; the
\* statements name no completed_at.
NewRow(db_status, error_message, published_url, current_time) ==
    [status |-> db_status, error_message |-> error_message,
     published_url |-> published_url,
     created_at |-> current_time, updated_at |-> current_time,
     completed_at |-> NoTime]

\* {}
EmptyDict == [k \in {} |-> 0]

NoCall == [op |-> "none", status |-> NULL, written |-> NULL, ret |-> NULL]

RECURSIVE SetToSeq(_)
\* The ids of a set in ascending order: the order the rows lie in the table.
SetToSeq(S) ==
    IF S = {} THEN <<>>
    ELSE LET m == CHOOSE x \in S : \A y \in S : x <= y
         IN  <<m>> \o SetToSeq(S \ {m})

RowsWithStatus(rows, db_status) == {t \in DOMAIN rows : rows[t].status = db_status}

\* "SELECT * FROM tasks WHERE status = %s [LIMIT n]": with no ORDER BY the
\* store chooses which n rows it returns.  The choices modelled are those of a
\* sequential scan, which returns the rows in table order starting at the
\* block it chooses (and wraps around): every run of n matching rows.
SelectRows(rows, db_status, limit) ==
    LET matching == SetToSeq(RowsWithStatus(rows, db_status))
        n == Len(matching)
    IN  IF limit \in {NoLimit, 0} \/ n <= limit   \* "if limit:" is false for None and 0
        THEN {RowsWithStatus(rows, db_status)}
        ELSE {{matching[((start - 1 + k) % n) + 1] : k \in 0..(limit - 1)} :
                start \in 1..n}

\* A mutant of MarkedRows: the UPDATE does not re-check status = 'pending'.
MarkedRowsUnconditional(rows, task_ids) == task_ids \cap DOMAIN rows

\* The rows "UPDATE tasks SET status = 'in_progress' WHERE task_id = ANY(ids)
\* AND status = 'pending' RETURNING *" changes and returns.
MarkedRows(rows, task_ids) ==
    {t \in task_ids \cap DOMAIN rows : rows[t].status = "pending"}

\* ----------------------------------------------------- QueueManager
\* A mutant of Executes: what a statement did is kept although the connection
\* failed or the statement raised.
ExecutesAlways(st) == TRUE

\* The statement of a method runs and is committed: a connection was obtained
\* and nothing raised psycopg2.Error (else: return at once, or rollback).
Executes(st) == st = "up"

\* get_tasks_by_status(status, limit) by worker w.
GetTasksByStatus(w, status, limit) ==
    /\ wpc[w] \in {"idle", "returned"}
    /\ \E rows \in (IF ~Executes(store) \/ status = "processing"
                    THEN {{}}
                    ELSE SelectRows(db, ToDbStatus(status), limit)) :
          selected' = [selected EXCEPT ![w] = rows]
    /\ wpc' = [wpc EXCEPT ![w] = "selected"]
    /\ UNCHANGED <<db, claimed, lastCall, orchVars, agentVars, envVars>>

\* get_pending_tasks(limit)
GetPendingTasks(w, limit) == GetTasksByStatus(w, "pending", limit)

\* mark_tasks_in_progress(tasks) on what the worker read.  One UPDATE
\* statement: the store applies it atomically.
MarkTasksInProgress(w) ==
    /\ wpc[w] = "selected"
    /\ LET rows == IF selected[w] = {} \/ ~Executes(store)
                   THEN {} ELSE MarkedRows(db, selected[w])
       IN  /\ db' = [t \in DOMAIN db |->
                       IF t \in rows
                       THEN [db[t] EXCEPT !.status = "in_progress", !.updated_at = now]
                       ELSE db[t]]
           /\ claimed' = [claimed EXCEPT ![w] = @ \cup rows]
    /\ wpc' = [wpc EXCEPT ![w] = "returned"]
    /\ selected' = [selected EXCEPT ![w] = {}]
    /\ UNCHANGED <<lastCall, orchVars, agentVars, envVars>>

\* An UPDATE that names error_message and published_url always, given or
\* not.
UpdateRowAllFields(row, status, error_message, url, current_time) ==
    [row EXCEPT
       !.status = ToDbStatus(status),
       !.updated_at = current_time,
       !.error_message = error_message,
       !.published_url = url]

\* "UPDATE tasks SET status = %s, updated_at = %s [, error_message = %s]
\* [, published_url = %s] WHERE task_id = %s" applied to the row it matches.
UpdateRow(row, status, error_message, url, current_time) ==
    [row EXCEPT
       !.status = ToDbStatus(status),
       !.updated_at = current_time,
       !.error_message = IF error_message # NULL THEN error_message ELSE @,
       !.published_url = IF url # NULL THEN url ELSE @]

\* update_task_status(task_id, status, error_message, url): one UPDATE of the
\* row with that task_id; None when no row has it.
UpdateTaskStatus(task_id, status, error_message, url) ==
    /\ IF task_id \in DOMAIN db /\ Executes(store)
       THEN /\ db' = [db EXCEPT ![task_id] =
                        UpdateRow(@, status, error_message, url, now)]
            /\ lastCall' = [op |-> "update_task_status",
                            status |-> status, written |-> ToDbStatus(status),
                            ret |-> MapRowStatus(ToDbStatus(status))]
       ELSE /\ db' = db
            /\ lastCall' = [op |-> "update_task_status",
                            status |-> status, written |-> NULL, ret |-> NULL]
    \* a task written back to pending is no longer held by the worker it was
    \* returned to
    /\ claimed' = [w \in DOMAIN claimed |->
                     IF task_id \in DOMAIN db /\ Executes(store)
                        /\ ToDbStatus(status) = "pending"
                     THEN claimed[w] \ {task_id} ELSE claimed[w]]
    /\ UNCHANGED <<wpc, selected, orchVars, agentVars, envVars>>

\* add_task(task_data): INSERT of a new row; a task_id that exists violates
\* the primary key (psycopg2.Error: rollback, None).
AddTask(task_id, status) ==
    /\ IF task_id \notin DOMAIN db /\ Executes(store)
       THEN /\ db' = [t \in DOMAIN db \cup {task_id} |->
                        IF t = task_id THEN NewRow(ToDbStatus(status), NULL, NULL, now)
                        ELSE db[t]]
            /\ lastCall' = [op |-> "add_task", status |-> status,
                            written |-> ToDbStatus(status),
                            ret |-> MapRowStatus(ToDbStatus(status))]
       ELSE /\ db' = db
            /\ lastCall' = [op |-> "add_task", status |-> status,
                            written |-> NULL, ret |-> NULL]
    /\ UNCHANGED <<wpc, selected, claimed, orchVars, agentVars, envVars>>

\* _map_row_to_task(row) on a row with the given status.
MapRowToTask(db_status) ==
    /\ lastCall' = [op |-> "_map_row_to_task", status |-> db_status,
                    written |-> NULL, ret |-> MapRowStatus(db_status)]
    /\ UNCHANGED <<db, wpc, selected, claimed, orchVars, agentVars, envVars>>

\* A mutant of GetTaskById: a missing row is mapped like a row.
GetTaskByIdUnchecked(task_id) ==
    /\ lastCall' = [op |-> "get_task_by_id", status |-> NULL, written |-> NULL,
                    ret |-> MapRowStatus(IF task_id \in DOMAIN db
                                         THEN db[task_id].status ELSE NULL)]
    /\ UNCHANGED <<db, wpc, selected, claimed, orchVars, agentVars, envVars>>

\* get_task_by_id(task_id): the task of the row with that task_id, or None.
GetTaskById(task_id) ==
    /\ lastCall' = [op |-> "get_task_by_id", status |-> NULL, written |-> NULL,
                    ret |-> IF Executes(store) /\ task_id \in DOMAIN db
                            THEN MapRowStatus(db[task_id].status) ELSE NULL]
    /\ UNCHANGED <<db, wpc, selected, claimed, orchVars, agentVars, envVars>>

\* The rows of "SELECT status, COUNT(*) as count FROM tasks GROUP BY status".
StatusCounts(rows) ==
    [db_status \in {rows[t].status : t \in DOMAIN rows} |->
        Cardinality(RowsWithStatus(rows, db_status))]

\* The first loop of get_queue_stats: stats[python_status_key] = count.  (Two
\* statuses of the store with one key would overwrite each other; no two
\* values of the store's enum have one key.)
KeyedStats(counts) ==
    [python_status_key \in
        {DictGet(DB_TO_PYTHON_STATUS_MAP, d, d) : d \in DOMAIN counts} |->
        counts[CHOOSE d \in DOMAIN counts :
                  DictGet(DB_TO_PYTHON_STATUS_MAP, d, d) = python_status_key]]

\* The dictionary rebuilt with the PythonTaskStatus values as keys, 0 where
\* the query gave no count; a key that is no enum value keeps its own name.
FinalStats(st) ==
    [k \in TaskStatus \cup {d \in DOMAIN st : EnumOf(DictGet(DB_TO_PYTHON_STATUS_MAP, d, d)) = "ValueError"} |->
        IF \E d \in DOMAIN st : DictGet(DB_TO_PYTHON_STATUS_MAP, d, d) = k
        THEN st[CHOOSE d \in DOMAIN st : DictGet(DB_TO_PYTHON_STATUS_MAP, d, d) = k]
        ELSE 0]

\* A mutant of CompletedStats: the dictionary of the first loop is returned
\* as it is.
CompletedStatsNoRebuild(st) == st

\* The loop over PythonTaskStatus after the query: at the first member that
\* is missing (under its own value and under its persisted spelling) the
\* rebuilt dictionary is returned; with no member missing, stats itself.
CompletedStats(st) ==
    IF \E m \in TaskStatus :
          m \notin DOMAIN st /\ DictGet(PYTHON_TO_DB_STATUS_MAP, m, m) \notin DOMAIN st
    THEN FinalStats(st)
    ELSE st

\* get_queue_stats(): {} with no connection; stats stays {} when the query
\* raises, and the loop over PythonTaskStatus runs in both cases.
GetQueueStats ==
    /\ stats' = IF store = "down" THEN EmptyDict
                ELSE IF store = "failing" THEN CompletedStats(EmptyDict)
                ELSE CompletedStats(KeyedStats(StatusCounts(db)))
    /\ lastCall' = [op |-> "get_queue_stats", status |-> NULL, written |-> NULL,
                    ret |-> NULL]
    /\ UNCHANGED <<db, wpc, selected, claimed, orchVars, agentVars,
                   now, store, services, locations, runs>>

\* The store becomes unreachable, starts to fail statements, or recovers.
SetStore(st) ==
    /\ store # st
    /\ store' = st
    /\ UNCHANGED <<dbVars, orchVars, agentVars, now, stats, services, locations, runs>>

\* Largest time of the clock.
MaxTime == 2

\* Time passes.
Tick ==
    /\ now < MaxTime
    /\ now' = now + 1
    /\ UNCHANGED <<dbVars, orchVars, agentVars, store, stats, services, locations, runs>>

\* ---------------------------------------------- create_task_queue
\* Strings are sequences of characters.  f"{service_id}_{zip_code}"
TaskId(service_id, zip_code) == service_id \o <<"_">> \o zip_code

\* A mutant of OnConflictDoNothing: a row that exists is replaced by the new
\* one.
OnConflictDoUpdate(rows, ids, current_time) ==
    [t \in DOMAIN rows \cup ids |->
        IF t \in ids THEN NewRow("pending", NULL, NULL, current_time) ELSE rows[t]]

\* "INSERT INTO tasks (...) VALUES ... ON CONFLICT (task_id) DO NOTHING": a
\* row per task_id that has none yet, created_at and updated_at by default.
OnConflictDoNothing(rows, ids, current_time) ==
    [t \in DOMAIN rows \cup ids |->
        IF t \in DOMAIN rows THEN rows[t]
        ELSE NewRow("pending", NULL, NULL, current_time)]

\* Most runs of create_task_queue.
MaxRuns == 2

\* create_task_queue(conn): a pending task for every service and every
\* active location; nothing when one of the two tables gives no row or the
\* statement fails (rollback).
CreateTaskQueue ==
    /\ runs < MaxRuns
    /\ runs' = runs + 1
    /\ IF locations = {} \/ services = {} \/ ~Executes(store)
       THEN db' = db
       ELSE db' = OnConflictDoNothing(
                      db, {TaskId(service_id, zip_code) :
                              service_id \in services, zip_code \in locations}, now)
    /\ UNCHANGED <<wpc, selected, claimed, lastCall, orchVars, agentVars,
                   now, store, stats, services, locations>>

\* The store reachable, the catalogue tables empty, no statistics read.
InitEnv ==
    /\ now = 0
    /\ store = "up"
    /\ stats = EmptyDict
    /\ services = {}
    /\ locations = {}
    /\ runs = 0

\* No stage agent has run, nothing was monitored.
NoResult == [agent |-> "none", task_id |-> 0, status |-> NULL, message |-> NULL,
             url |-> NULL, calls |-> <<>>]
NoRate == [num |-> 0, den |-> 1]
NoReport == [tasks |-> <<>>, op |-> "none", hours |-> 0, counted |-> {},
             rate |-> NoRate, raised |-> NULL, shown |-> <<>>]

InitAgents ==
    /\ seo_research_data = {}
    /\ generated_content = {}
    /\ assembled_pages = {}
    /\ process_result = NoResult
    /\ mon = NoReport

InitWorkers(ws) ==
    /\ wpc = [w \in ws |-> "idle"]
    /\ selected = [w \in ws |-> {}]
    /\ claimed = [w \in ws |-> {}]
    /\ lastCall = NoCall

\* ------------------------------------------------ OrchestratorAgent
\* Tasks in the queue file, largest batch size and largest concurrency cap
\* of the general specification of the driver.
NumQueue == 3
MaxBatch == 3
MaxCap == 2

NumStages == 4

\* The queue is a JSON list; a task's task_id is modelled by its position.
QueueIds == 1..NumQueue

\* update_task_status(task_id, status, result) on a queue: the first task
\* with that task_id gets the status, and the result when one is given.
QueueUpdate(q, task_id, status, result) ==
    IF task_id \in DOMAIN q
    THEN [q EXCEPT ![task_id] =
            [status |-> status,
             result |-> IF result # NULL THEN result ELSE @.result]]
    ELSE q

RECURSIVE NextPendingHeadOnly(_, _, _, _)
\* A loop that looks at the first `limit` tasks of the queue only
\* ("for task in queue[:limit]").
NextPendingHeadOnly(q, i, limit, taken) ==
    IF i > Len(q) \/ i > limit THEN taken
    ELSE IF q[i].status = "pending"
         THEN NextPendingHeadOnly(q, i + 1, limit, Append(taken, i))
         ELSE NextPendingHeadOnly(q, i + 1, limit, taken)

RECURSIVE NextPending(_, _, _, _)
\* The loop of get_next_pending_tasks from position i on, with the tasks
\* taken so far: the first `limit` pending tasks in queue order.
NextPending(q, i, limit, taken) ==
    IF i > Len(q) THEN taken
    ELSE IF q[i].status = "pending" /\ Len(taken) < limit
         THEN NextPending(q, i + 1, limit, Append(taken, i))
         ELSE NextPending(q, i + 1, limit, taken)

SeqRange(sq) == {sq[i] : i \in DOMAIN sq}

\* A mutant of MarkedQueue: every pending task is marked, taken or not.
MarkedQueueAllPending(q, taken) ==
    [i \in DOMAIN q |->
        IF q[i].status = "pending" THEN [q[i] EXCEPT !.status = "in_progress"] ELSE q[i]]

\* The queue get_next_pending_tasks saves: the loaded one with the tasks it
\* took marked in_progress.
MarkedQueue(q, taken) ==
    [i \in DOMAIN q |->
        IF i \in SeqRange(taken) THEN [q[i] EXCEPT !.status = "in_progress"] ELSE q[i]]

\* get_next_pending_tasks, first half: queue = self._load_task_queue().
LoadTaskQueue(d) ==
    /\ dpc[d] = "poll"
    /\ loaded' = [loaded EXCEPT ![d] = queue]
    /\ dpc' = [dpc EXCEPT ![d] = "loaded"]
    /\ UNCHANGED <<queue, max_tasks_per_batch, concurrent_tasks, pending_tasks,
                   pos, tasks, co, stage, ret, dbVars, agentVars, envVars>>

\* get_next_pending_tasks, second half: mark the first pending tasks of the
\* loaded queue, save it over the file, return them; then start_process
\* either sleeps (no task) or starts the for loop.
MarkAndSaveTaskQueue(d) ==
    /\ dpc[d] = "loaded"
    /\ LET taken == NextPending(loaded[d], 1, max_tasks_per_batch, <<>>)
       IN  /\ queue' = MarkedQueue(loaded[d], taken)
           /\ pending_tasks' = [pending_tasks EXCEPT ![d] = taken]
           /\ dpc' = [dpc EXCEPT ![d] = IF taken = <<>> THEN "sleep" ELSE "dispatch"]
    /\ loaded' = [loaded EXCEPT ![d] = <<>>]
    /\ pos' = [pos EXCEPT ![d] = 1]
    /\ tasks' = [tasks EXCEPT ![d] = <<>>]
    /\ UNCHANGED <<max_tasks_per_batch, concurrent_tasks, co, stage, ret, dbVars, agentVars, envVars>>

\* await asyncio.sleep(...) is over: the next round of the while loop.
WakeUp(d) ==
    /\ dpc[d] \in {"sleep", "pause"}
    /\ dpc' = [dpc EXCEPT ![d] = "poll"]
    /\ UNCHANGED <<queue, max_tasks_per_batch, concurrent_tasks, loaded,
                   pending_tasks, pos, tasks, co, stage, ret, dbVars, agentVars, envVars>>

\* The process of a driver stops wherever it is and start_process is started
\* again: what the process held in memory is gone (the coroutines of its
\* batch with it), the queue file is as it was left.
Restart(d) ==
    /\ dpc[d] # "poll"
    /\ dpc' = [dpc EXCEPT ![d] = "poll"]
    /\ loaded' = [loaded EXCEPT ![d] = <<>>]
    /\ pending_tasks' = [pending_tasks EXCEPT ![d] = <<>>]
    /\ pos' = [pos EXCEPT ![d] = 1]
    /\ tasks' = [tasks EXCEPT ![d] = <<>>]
    /\ co' = [t \in DOMAIN co |-> IF t \in SeqRange(tasks[d]) THEN "none" ELSE co[t]]
    /\ UNCHANGED <<queue, max_tasks_per_batch, concurrent_tasks, stage, ret,
                   dbVars, agentVars, envVars>>

\* A mutant of GroupFull: the group is gathered one task later.
GroupFullLate(group, cap) == Len(group) > cap

\* "if len(tasks) >= self.concurrent_tasks"
GroupFull(group, cap) == Len(group) >= cap

\* One round of "for task in pending_tasks": create the coroutine, append it,
\* write 'processing', and either gather the full group or go on.
Dispatch(d) ==
    /\ dpc[d] = "dispatch"
    /\ pos[d] <= Len(pending_tasks[d])
    /\ LET t == pending_tasks[d][pos[d]]
           group == Append(tasks[d], t)
       IN  /\ co' = [co EXCEPT ![t] = "created"]
           /\ stage' = [stage EXCEPT ![t] = 0]
           /\ ret' = [ret EXCEPT ![t] = NULL]
           /\ tasks' = [tasks EXCEPT ![d] = group]
           /\ queue' = QueueUpdate(queue, t, "processing", NULL)
           /\ IF GroupFull(group, concurrent_tasks)
              THEN /\ dpc' = [dpc EXCEPT ![d] = "gather_full"]
                   /\ pos' = pos
              ELSE /\ dpc' = [dpc EXCEPT ![d] =
                                IF pos[d] + 1 > Len(pending_tasks[d])
                                THEN "gather_rest" ELSE "dispatch"]
                   /\ pos' = [pos EXCEPT ![d] = @ + 1]
    /\ UNCHANGED <<max_tasks_per_batch, concurrent_tasks, loaded, pending_tasks,
                   dbVars, agentVars, envVars>>

\* The task whose status the loop after the gather of a full group writes
\* for the i-th result: pending_tasks[i].
TargetFull(batch, group, i) == batch[i]

\* The task whose status the loop after the last gather writes for the i-th
\* result: pending_tasks[i + (len(pending_tasks) - len(tasks))].
TargetRest(batch, group, i) == batch[i + (Len(batch) - Len(group))]

RECURSIVE WriteResults(_, _, _, _, _)
\* "for i, result in enumerate(completed_tasks): update_task_status(...)"
\* from the i-th result on; full tells which of the two loops it is.
WriteResults(q, batch, group, i, full) ==
    IF i > Len(group) THEN q
    ELSE LET task_id == IF full THEN TargetFull(batch, group, i)
                                ELSE TargetRest(batch, group, i)
             status == ret[group[i]]
         IN  WriteResults(QueueUpdate(q, task_id, status, status),
                          batch, group, i + 1, full)

\* completed_tasks = await asyncio.gather(*tasks) of a full group has
\* returned: write the results, reset the group, next round of the for loop.
GatherFull(d) ==
    /\ dpc[d] = "gather_full"
    /\ \A t \in SeqRange(tasks[d]) : co[t] = "done"
    /\ queue' = WriteResults(queue, pending_tasks[d], tasks[d], 1, TRUE)
    /\ tasks' = [tasks EXCEPT ![d] = <<>>]
    /\ pos' = [pos EXCEPT ![d] = @ + 1]
    /\ dpc' = [dpc EXCEPT ![d] =
                 IF pos[d] + 1 > Len(pending_tasks[d]) THEN "pause" ELSE "dispatch"]
    /\ UNCHANGED <<max_tasks_per_batch, concurrent_tasks, loaded, pending_tasks,
                   co, stage, ret, dbVars, agentVars, envVars>>

\* The gather of the remaining tasks after the for loop has returned.
GatherRest(d) ==
    /\ dpc[d] = "gather_rest"
    /\ \A t \in SeqRange(tasks[d]) : co[t] = "done"
    /\ queue' = WriteResults(queue, pending_tasks[d], tasks[d], 1, FALSE)
    /\ dpc' = [dpc EXCEPT ![d] = "pause"]
    /\ UNCHANGED <<max_tasks_per_batch, concurrent_tasks, loaded, pending_tasks,
                   pos, tasks, co, stage, ret, dbVars, agentVars, envVars>>

\* A coroutine runs once the driver awaits the gather of its group.
Awaited(t) ==
    /\ co[t] = "created"
    /\ \E d \in DOMAIN dpc :
          dpc[d] \in {"gather_full", "gather_rest"} /\ t \in SeqRange(tasks[d])

\* What process_task returns for an outcome of the run: the final response
\* holds "successfully completed" once the last stage succeeded, another
\* text when a stage declined; an exception of the run is caught.
ResultStatus(outcome) ==
    CASE outcome = "ok" -> "completed"
      [] outcome = "declined" -> "failed"
      [] outcome = "raised" -> "error"

\* process_task: the runner invokes the next stage collaborator for the
\* task, which succeeds, declines or raises.
RunnerStage(t, outcome) ==
    /\ Awaited(t)
    /\ stage[t] < NumStages
    /\ stage' = [stage EXCEPT ![t] = @ + 1]
    /\ IF outcome = "ok" /\ stage[t] + 1 < NumStages
       THEN UNCHANGED <<co, ret>>
       ELSE /\ co' = [co EXCEPT ![t] = "done"]
            /\ ret' = [ret EXCEPT ![t] = ResultStatus(outcome)]
    /\ UNCHANGED <<queue, max_tasks_per_batch, concurrent_tasks, dpc, loaded,
                   pending_tasks, pos, tasks, dbVars, agentVars, envVars>>

\* process_task: the run ends with no final response that has content; the
\* result keeps the status it was created with.
RunnerSilent(t) ==
    /\ Awaited(t)
    /\ co' = [co EXCEPT ![t] = "done"]
    /\ ret' = [ret EXCEPT ![t] = "processing"]
    /\ UNCHANGED <<queue, max_tasks_per_batch, concurrent_tasks, dpc, loaded,
                   pending_tasks, pos, tasks, stage, dbVars, agentVars, envVars>>

\* process_task: the external call of the run (run_async) never returns.
\* Nothing bounds its time: no asyncio.wait_for, no timeout argument.
Hang(t) ==
    /\ Awaited(t)
    /\ co' = [co EXCEPT ![t] = "hung"]
    /\ UNCHANGED <<queue, max_tasks_per_batch, concurrent_tasks, dpc, loaded,
                   pending_tasks, pos, tasks, stage, ret, dbVars, agentVars, envVars>>

Outcomes == {"ok", "declined", "raised"}

InitDrivers(ds, ids) ==
    /\ dpc = [d \in ds |-> "poll"]
    /\ loaded = [d \in ds |-> <<>>]
    /\ pending_tasks = [d \in ds |-> <<>>]
    /\ pos = [d \in ds |-> 1]
    /\ tasks = [d \in ds |-> <<>>]
    /\ co = [t \in ids |-> "none"]
    /\ stage = [t \in ids |-> 0]
    /\ ret = [t \in ids |-> NULL]

\* The queue file as the initialisation writes it: every task pending.
PendingQueue(ids) == [t \in ids |-> [status |-> "pending", result |-> NULL]]

\* The driver idle on an empty queue: the orchestrator part of the state in
\* the specifications of the QueueManager.
InitOrchIdle ==
    /\ queue = <<>>
    /\ max_tasks_per_batch = 10
    /\ concurrent_tasks = 5
    /\ InitDrivers({1}, {})

\* One driver, every batch size and concurrency cap.
InitOrch ==
    /\ queue = PendingQueue(QueueIds)
    /\ max_tasks_per_batch \in 1..MaxBatch
    /\ concurrent_tasks \in 1..MaxCap
    /\ InitDrivers({1}, QueueIds)
    /\ db = <<>>
    /\ InitWorkers({})
    /\ InitAgents
    /\ InitEnv

NextOrch ==
    \/ \E d \in DOMAIN dpc : LoadTaskQueue(d)
    \/ \E d \in DOMAIN dpc : MarkAndSaveTaskQueue(d)
    \/ \E d \in DOMAIN dpc : WakeUp(d)
    \/ \E d \in DOMAIN dpc : Dispatch(d)
    \/ \E d \in DOMAIN dpc : GatherFull(d)
    \/ \E d \in DOMAIN dpc : GatherRest(d)
    \/ \E t \in DOMAIN co, outcome \in Outcomes : RunnerStage(t, outcome)
    \/ \E t \in DOMAIN co : RunnerSilent(t)

SpecOrch == InitOrch /\ [][NextOrch]_vars

\* ------------------------------------------------ PublisherAgent
\* What runner.run_async yields to PublisherAgent.process_task:
\*   url                 the publish tool answered success with a URL, then
\*                       the final response
\*   no_url              the tool answered success with an empty URL, final
\*   tool_error_message  the tool answered {status: error, error: ..,
\*                       message: "Failed to publish page"}, final
\*   tool_error_plain    the tool answered {status: error, error: ..} (the
\*                       shape publish_page_tool returns), final
\*   no_tool             a final response and no tool response
\*   tool_no_final       a tool response and no final response
\*   nothing             neither
\*   raise               run_async raises
PublishRuns ==
    {"url", "no_url", "tool_error_message", "tool_error_plain", "no_tool",
     "tool_no_final", "nothing", "raise"}

\* The texts of the messages.
NotFoundMessage == "Assembled page not found in DB. Cannot publish."
NoUrlMessage == "Publish tool success but no URL."
ToolError == "CMS connection failed"
DefaultToolMessage == "Publishing failed or tool did not return expected output."
FailedSummary(err_msg) == "Publishing failed. Tool error: " \o err_msg
NoActionMessage == "LLM did not complete publishing actions or no tool response received."
RunnerError == "runner error"
FullUrl == "https://example.com/service/zip/"

\* err_msg of the branch without a successful tool output: the tool's error
\* only when the result carries a message that names "publish".
ErrMsg(run) == IF run = "tool_error_message" THEN ToolError ELSE DefaultToolMessage

StatusCall(status, error_message, url) ==
    [status |-> status, error_message |-> error_message, url |-> url]

\* _is_page_assembled: False without a connection and on psycopg2.Error.
IsPageAssembled(task_id) == Executes(store) /\ task_id \in assembled_pages

\* The calls when a successful tool output is published without looking at
\* its URL.
PublisherCallsUrlUnchecked(assembled, run) ==
    IF ~assembled THEN <<StatusCall("error", NotFoundMessage, NULL)>>
    ELSE CASE run = "raise" -> <<StatusCall("error", RunnerError, NULL)>>
           [] run = "url" -> <<StatusCall("published", NULL, FullUrl)>>
           [] run = "no_url" -> <<StatusCall("published", NULL, "")>>
           [] run \in {"tool_error_message", "tool_error_plain"} ->
                <<StatusCall("failed", ErrMsg(run), NULL)>>
           [] run = "no_tool" ->
                <<StatusCall("failed", ErrMsg(run), NULL),
                  StatusCall("failed", FailedSummary(ErrMsg(run)), NULL)>>
           [] run = "tool_no_final" -> <<>>
           [] run = "nothing" -> <<StatusCall("failed", NoActionMessage, NULL)>>

\* The calls of queue_manager.update_task_status one process_task makes, in
\* order.
PublisherCalls(assembled, run) ==
    IF ~assembled THEN <<StatusCall("error", NotFoundMessage, NULL)>>
    ELSE CASE run = "raise" -> <<StatusCall("error", RunnerError, NULL)>>
           [] run = "url" -> <<StatusCall("published", NULL, FullUrl)>>
           [] run = "no_url" -> <<StatusCall("failed", NoUrlMessage, NULL)>>
           [] run \in {"tool_error_message", "tool_error_plain"} ->
                <<StatusCall("failed", ErrMsg(run), NULL)>>
           [] run = "no_tool" ->
                <<StatusCall("failed", ErrMsg(run), NULL),
                  StatusCall("failed", FailedSummary(ErrMsg(run)), NULL)>>
           [] run = "tool_no_final" -> <<>>
           [] run = "nothing" -> <<StatusCall("failed", NoActionMessage, NULL)>>

\* process_result["status"]: "error" by default, set only on a publication.
PublisherStatus(assembled, run) ==
    IF assembled /\ run = "url" THEN "published" ELSE "error"

PublisherUrl(assembled, run) ==
    IF assembled /\ run = "url" THEN FullUrl ELSE NULL

PublisherMessage(assembled, run) ==
    IF ~assembled THEN NotFoundMessage
    ELSE CASE run = "raise" -> RunnerError
           [] run = "url" -> "Successfully published"
           [] run = "no_url" -> "Publish tool reported success but no URL."
           [] run \in {"tool_error_message", "tool_error_plain", "no_tool"} ->
                FailedSummary(ErrMsg(run))
           [] run = "tool_no_final" -> ""
           [] run = "nothing" -> NoActionMessage

RECURSIVE ApplyCalls(_, _, _, _, _)
\* The table after the update_task_status calls of one process_task.
ApplyCalls(rows, task_id, calls, st, current_time) ==
    IF calls = <<>> \/ task_id \notin DOMAIN rows \/ ~Executes(st) THEN rows
    ELSE ApplyCalls([rows EXCEPT ![task_id] =
                        UpdateRow(@, Head(calls).status, Head(calls).error_message,
                                  Head(calls).url, current_time)],
                    task_id, Tail(calls), st, current_time)

\* PublisherAgent.process_task(task) with what the runner yields.
PublisherProcessTask(task_id, run) ==
    LET assembled == IsPageAssembled(task_id)
        calls == PublisherCalls(assembled, run)
        wrote == task_id \in DOMAIN db /\ Executes(store)
    IN  /\ db' = ApplyCalls(db, task_id, calls, store, now)
        /\ process_result' =
              [agent |-> "publisher", task_id |-> task_id,
               status |-> PublisherStatus(assembled, run),
               message |-> PublisherMessage(assembled, run),
               url |-> PublisherUrl(assembled, run),
               calls |-> calls]
        /\ lastCall' =
              IF calls = <<>> THEN lastCall
              ELSE LET last == calls[Len(calls)].status
                   IN  [op |-> "update_task_status", status |-> last,
                        written |-> IF wrote THEN ToDbStatus(last) ELSE NULL,
                        ret |-> IF wrote THEN MapRowStatus(ToDbStatus(last))
                                ELSE NULL]
        /\ UNCHANGED <<wpc, selected, claimed, orchVars, envVars,
                       seo_research_data, generated_content, assembled_pages, mon>>

\* ------------------ SeoResearchAgent, ContentGeneratorAgent, PageAssemblerAgent
\* What runner.run_async yields to the three agents: a final response with
\* data (for the first two a text that is not JSON counts: it is wrapped in
\* a dict), a final response whose JSON is empty, no final response, an
\* exception.
LlmRuns == {"data", "empty", "none", "raise"}

\* The process_result of the three agents: they call no update_task_status.
StageResult(agent, task_id, status, message) ==
    [agent |-> agent, task_id |-> task_id, status |-> status,
     message |-> message, url |-> NULL, calls |-> <<>>]

\* "INSERT INTO <table> .. ON CONFLICT (task_id) DO UPDATE": True when the
\* statement is executed and committed.
Saved(table, task_id, st) == IF Executes(st) THEN table \cup {task_id} ELSE table

\* SeoResearchAgent.process_task(task)
SeoProcessTask(task_id, llm) ==
    /\ seo_research_data' =
          IF llm = "data" THEN Saved(seo_research_data, task_id, store)
          ELSE seo_research_data
    /\ process_result' =
          CASE llm = "raise" -> StageResult("seo_research", task_id, "error", RunnerError)
            [] llm = "data" /\ Executes(store) ->
                 StageResult("seo_research", task_id, "completed",
                             "SEO research completed and data saved.")
            [] llm = "data" /\ ~Executes(store) ->
                 StageResult("seo_research", task_id, "error",
                             "Failed to save SEO research data to DB.")
            [] OTHER -> StageResult("seo_research", task_id, "error",
                                    "LLM did not return a parsable response.")
    /\ UNCHANGED <<dbVars, orchVars, envVars, generated_content, assembled_pages, mon>>

\* ContentGeneratorAgent._get_seo_research_data: {} without a row, without a
\* connection and on psycopg2.Error.
GetSeoResearchData(task_id) == Executes(store) /\ task_id \in seo_research_data

\* The prompt of the content generator: seo_data only extend it ("if
\* seo_data:"), the run goes on without them.
ContentPrompt(seo_data) == IF seo_data THEN "with keywords" ELSE "without keywords"

\* ContentGeneratorAgent.process_task(task)
ContentProcessTask(task_id, llm) ==
    LET seo_data == GetSeoResearchData(task_id)
        prompt == ContentPrompt(seo_data)
    IN  /\ generated_content' =
              \* the data, or for an empty JSON the raw response
              IF llm \in {"data", "empty"}
              THEN Saved(generated_content, task_id, store)
              ELSE generated_content
        /\ process_result' =
              CASE llm = "raise" ->
                     StageResult("content_generator", task_id, "error", RunnerError)
                [] llm = "data" /\ Executes(store) ->
                     StageResult("content_generator", task_id, "completed",
                                 "Content generated and saved " \o prompt)
                [] llm = "data" /\ ~Executes(store) ->
                     StageResult("content_generator", task_id, "error",
                                 "Failed to save generated content to DB.")
                [] OTHER -> StageResult("content_generator", task_id, "error",
                                        "LLM did not return parsable content.")
        /\ UNCHANGED <<dbVars, orchVars, envVars, seo_research_data, assembled_pages, mon>>

\* PageAssemblerAgent._get_content_data: None without a row, without a
\* connection and on psycopg2.Error.
GetContentData(task_id) == Executes(store) /\ task_id \in generated_content

\* PageAssemblerAgent.process_task(task)
AssemblerProcessTask(task_id, llm) ==
    LET content_data == GetContentData(task_id)
    IN  /\ assembled_pages' =
              IF content_data /\ llm = "data"
              THEN Saved(assembled_pages, task_id, store)
              ELSE assembled_pages
        /\ process_result' =
              CASE ~content_data ->
                     StageResult("page_assembler", task_id, "error",
                                 "Generated content not found in DB.")
                [] content_data /\ llm = "raise" ->
                     StageResult("page_assembler", task_id, "error", RunnerError)
                [] content_data /\ llm = "data" ->
                     \* content_data was read: the store executes
                     StageResult("page_assembler", task_id, "completed",
                                 "Page assembled and saved to DB.")
                [] OTHER -> StageResult("page_assembler", task_id, "error",
                                        "LLM did not return HTML content.")
        /\ UNCHANGED <<dbVars, orchVars, envVars, seo_research_data, generated_content, mon>>

\* A process_task of one of the four stage agents.
StageStep(task_id) ==
    \/ \E llm \in LlmRuns : SeoProcessTask(task_id, llm)
    \/ \E llm \in LlmRuns : ContentProcessTask(task_id, llm)
    \/ \E llm \in LlmRuns : AssemblerProcessTask(task_id, llm)
    \/ \E run \in PublishRuns : PublisherProcessTask(task_id, run)

\* ------------------------------------------------------- monitoring
\* Longest task list given to the monitoring calculations.
MaxMonTasks == 2

\* What a task of the queue file carries as updated_at: no such key, None,
\* "", a value that is not a string, a string that is no ISO time, an ISO
\* time without offset (what datetime.now().isoformat() writes) at an hour,
\* an ISO time with an offset.
MonStamps ==
    {[kind |-> k, at |-> NoTime] :
        k \in {"absent", "none", "empty", "number", "text", "aware"}}
    \cup {[kind |-> "naive", at |-> t] : t \in 0..MaxTime}

MonTasks == [status : {"error", "completed"}, updated_at : MonStamps]

RECURSIVE SeqsUpTo(_, _)
\* The lists of at most n elements of S.
SeqsUpTo(S, n) ==
    IF n = 0 THEN {<<>>}
    ELSE LET shorter == SeqsUpTo(S, n - 1)
         IN  shorter \cup {Append(q, x) : q \in {r \in shorter : Len(r) = n - 1}, x \in S}

\* The hours a caller looks back.
Hours == {0, 1, 2}

\* task.get('updated_at') is truthy.
HasStamp(task) == task.updated_at.kind \notin {"absent", "none", "empty"}

\* What the body of the try does with a task at cutoff_time: fromisoformat
\* raises TypeError for a value that is no string and ValueError for a
\* string that is no ISO time; the comparison of a time with an offset with
\* cutoff_time, which has none, raises TypeError.
TryStamp(task, cutoff_time) ==
    CASE task.updated_at.kind = "number" -> "TypeError"
      [] task.updated_at.kind = "text" -> "ValueError"
      [] task.updated_at.kind = "aware" -> "TypeError"
      [] task.updated_at.kind = "naive" ->
           IF task.updated_at.at > cutoff_time THEN "recent" ELSE "old"

\* An except clause that names ValueError alone.
CaughtValueErrorOnly(exc) == exc = "ValueError"

\* except (ValueError, TypeError)
Caught(exc) == exc \in {"ValueError", "TypeError"}

\* The tasks the loop looks at: those with the status and a truthy
\* updated_at.
Examined(task_list, status) ==
    {i \in DOMAIN task_list : task_list[i].status = status /\ HasStamp(task_list[i])}

\* The first task of the loop whose exception is not caught, 0 when there is
\* none.
FirstRaising(task_list, status, cutoff_time) ==
    LET raising == {i \in Examined(task_list, status) :
                       /\ TryStamp(task_list[i], cutoff_time) \notin {"recent", "old"}
                       /\ ~Caught(TryStamp(task_list[i], cutoff_time))}
    IN  IF raising = {} THEN 0 ELSE CHOOSE i \in raising : \A j \in raising : i <= j

\* The tasks the loop counts.
Recent(task_list, status, cutoff_time) ==
    {i \in Examined(task_list, status) : TryStamp(task_list[i], cutoff_time) = "recent"}

\* The outcome of one of the two calculations over mon.tasks.
MonReport(op, status, hours, rate) ==
    LET cutoff_time == now - hours
        stop == FirstRaising(mon.tasks, status, cutoff_time)
        counted == Recent(mon.tasks, status, cutoff_time)
    IN  IF stop # 0
        THEN [tasks |-> mon.tasks, op |-> op, hours |-> hours, counted |-> {},
              rate |-> NoRate,
              raised |-> TryStamp(mon.tasks[stop], cutoff_time), shown |-> <<>>]
        ELSE [tasks |-> mon.tasks, op |-> op, hours |-> hours, counted |-> counted,
              rate |-> IF rate /\ hours > 0
                       THEN [num |-> Cardinality(counted), den |-> hours]
                       ELSE NoRate,
              raised |-> NULL, shown |-> <<>>]

\* get_recent_errors(tasks, hours)
GetRecentErrors(hours) ==
    /\ mon' = MonReport("get_recent_errors", "error", hours, FALSE)
    /\ UNCHANGED <<dbVars, orchVars, envVars, seo_research_data, generated_content,
                   assembled_pages, process_result>>

\* get_completion_rate(tasks, hours)
GetCompletionRate(hours) ==
    /\ mon' = MonReport("get_completion_rate", "completed", hours, TRUE)
    /\ UNCHANGED <<dbVars, orchVars, envVars, seo_research_data, generated_content,
                   assembled_pages, process_result>>

\* hours=24 of get_recent_errors, hours=1 of get_completion_rate.
ErrorHours == 24
RateHours == 1
\* recent_errors[:5]
ErrorsShown == 5

\* lst[:n]
FirstN(lst, n) == SubSeq(lst, 1, IF Len(lst) < n THEN Len(lst) ELSE n)

\* display_summary(tasks): the recent errors in the order of the queue, the
\* first five of them printed, and the completion rate.
DisplaySummary ==
    LET errors == MonReport("display_summary", "error", ErrorHours, FALSE)
        rates == MonReport("display_summary", "completed", RateHours, TRUE)
    IN  /\ mon' = IF errors.raised # NULL THEN errors
                  ELSE IF rates.raised # NULL THEN rates
                  ELSE [errors EXCEPT !.rate = rates.rate,
                                      !.shown = FirstN(SetToSeq(errors.counted),
                                                       ErrorsShown)]
        /\ UNCHANGED <<dbVars, orchVars, envVars, seo_research_data, generated_content,
                       assembled_pages, process_result>>

\* --------------------------------------------- specification: the claim
\* Statuses the callers of update_task_status write while workers claim: a
\* re-queue, and a final status of a run.
EnvStatuses == {"pending", "failed"}

\* The table as create_task_queue leaves it: every task pending.
InitDb ==
    /\ InitEnv
    /\ db = [t \in TaskIds |-> NewRow("pending", NULL, NULL, now)]
    /\ InitWorkers(Workers)
    /\ InitAgents
    /\ InitOrchIdle

NextDb ==
    \/ \E w \in Workers, limit \in Limits : GetPendingTasks(w, limit)
    \/ \E w \in Workers : MarkTasksInProgress(w)
    \/ \E t \in TaskIds, s \in EnvStatuses : UpdateTaskStatus(t, s, NULL, NULL)

Spec == InitDb /\ [][NextDb]_vars

\* ------------------------------- specification: two claims on 15 tasks
\* The batch size of the two claims (the limit the tests pass).
BatchSize == 10
Pool == 1..15
TwoWorkers == {1, 2}

InitPool ==
    /\ InitEnv
    /\ db = [t \in Pool |-> NewRow("pending", NULL, NULL, now)]
    /\ InitWorkers(TwoWorkers)
    /\ InitAgents
    /\ InitOrchIdle

\* Each of the two workers makes one claim call.
NextPool ==
    \/ \E w \in TwoWorkers : wpc[w] = "idle" /\ GetPendingTasks(w, BatchSize)
    \/ \E w \in TwoWorkers : MarkTasksInProgress(w)

SpecPool == InitPool /\ [][NextPool]_vars

\* -------------------------- specification: the single-row calls, mapping
InitStatus ==
    /\ db = <<>>
    /\ InitWorkers({})
    /\ InitAgents
    /\ InitOrchIdle
    /\ InitEnv

NextStatus ==
    \/ \E t \in TaskIds, s \in TaskStatus : AddTask(t, s)
    \/ \E t \in TaskIds, s \in TaskStatus : UpdateTaskStatus(t, s, NULL, NULL)
    \/ \E s \in DbStrings : MapRowToTask(s)

SpecStatus == InitStatus /\ [][NextStatus]_vars

\* ------------------- specification: two drivers claim from one queue file
TwoDrivers == {1, 2}

InitRace ==
    /\ queue \in [QueueIds -> {[status |-> "pending", result |-> NULL],
                               [status |-> "completed", result |-> "completed"]}]
    /\ max_tasks_per_batch \in 1..MaxBatch
    /\ concurrent_tasks = 1
    /\ InitDrivers(TwoDrivers, QueueIds)
    /\ db = <<>>
    /\ InitWorkers({})
    /\ InitAgents
    /\ InitEnv

\* Each driver calls get_next_pending_tasks, again after a sleep when it got
\* no task.
NextRace ==
    \/ \E d \in TwoDrivers : LoadTaskQueue(d)
    \/ \E d \in TwoDrivers : MarkAndSaveTaskQueue(d)
    \/ \E d \in TwoDrivers : WakeUp(d)

SpecRace == InitRace /\ [][NextRace]_vars

\* --------- specification: 5 tasks, batch size 5, cap 2; no stage raises
E2EIds == 1..5

InitE2E ==
    /\ queue = PendingQueue(E2EIds)
    /\ max_tasks_per_batch = 5
    /\ concurrent_tasks = 2
    /\ InitDrivers({1}, E2EIds)
    /\ db = <<>>
    /\ InitWorkers({})
    /\ InitAgents
    /\ InitEnv

NextE2E ==
    \/ \E d \in DOMAIN dpc : LoadTaskQueue(d)
    \/ \E d \in DOMAIN dpc : MarkAndSaveTaskQueue(d)
    \/ \E d \in DOMAIN dpc : WakeUp(d)
    \/ \E d \in DOMAIN dpc : Dispatch(d)
    \/ \E d \in DOMAIN dpc : GatherFull(d)
    \/ \E d \in DOMAIN dpc : GatherRest(d)
    \/ \E t \in DOMAIN co, outcome \in {"ok", "declined"} : RunnerStage(t, outcome)

SpecE2E == InitE2E /\ [][NextE2E]_vars

\* ------------------------------ specification: status updates over time
\* Statuses update_task_status is given while the clock runs: one that is
\* not final and the three final ones.
ClockStatuses == {"in_progress", "published", "failed", "error"}

InitClock ==
    /\ InitEnv
    /\ db = <<>>
    /\ InitWorkers({})
    /\ InitAgents
    /\ InitOrchIdle

NextClock ==
    \/ \E t \in TaskIds : AddTask(t, "pending")
    \/ \E t \in TaskIds, s \in ClockStatuses : UpdateTaskStatus(t, s, NULL, NULL)
    \/ Tick

SpecClock == InitClock /\ [][NextClock]_vars

\* ------------------------ specification: the store and its failures
\* Statuses given to add_task and update_task_status, and statuses queried.
StoreStatuses == {"pending", "seo_complete"}
QueryStatuses == {"pending", "seo_complete", "processing"}

InitStore ==
    /\ InitEnv
    /\ db = <<>>
    /\ InitWorkers({1})
    /\ InitAgents
    /\ InitOrchIdle

NextStore ==
    \/ \E t \in TaskIds, s \in StoreStatuses : AddTask(t, s)
    \/ \E t \in TaskIds, s \in StoreStatuses : UpdateTaskStatus(t, s, NULL, NULL)
    \/ \E t \in TaskIds : GetTaskById(t)
    \/ \E w \in DOMAIN wpc, s \in QueryStatuses, limit \in Limits :
          GetTasksByStatus(w, s, limit)
    \/ \E w \in DOMAIN wpc : MarkTasksInProgress(w)
    \/ \E st \in {"up", "down", "failing"} : SetStore(st)

SpecStore == InitStore /\ [][NextStore]_vars

\* --------------------------------- specification: the statistics
\* Every content of the store: any of the tasks, each with any of the values
\* of the store's enum.
InitStats ==
    /\ InitEnv
    /\ db \in UNION {[S -> {NewRow(st, NULL, NULL, 0) : st \in PersistedStatuses}] :
                      S \in SUBSET TaskIds}
    /\ InitWorkers({})
    /\ InitAgents
    /\ InitOrchIdle

NextStats ==
    \/ GetQueueStats
    \/ \E st \in {"up", "down", "failing"} : SetStore(st)

SpecStats == InitStats /\ [][NextStats]_vars

\* ------------- specification: every read and write, with store failures
NextFaults ==
    \/ NextStore
    \/ GetQueueStats

SpecFaults == InitStore /\ [][NextFaults]_vars

\* ------------------------------ specification: populating the tasks
\* service_ids and zip_codes the catalogue files may hold.
ServiceIds == {<<"a">>, <<"b">>, <<"a", "_", "b">>}
ZipCodes == {<<"1">>, <<"2">>, <<"b", "_", "1">>}

InitPopulate ==
    /\ now = 0
    /\ store = "up"
    /\ stats = EmptyDict
    /\ services \in SUBSET ServiceIds
    /\ locations \in SUBSET ZipCodes
    /\ runs = 0
    /\ db = <<>>
    /\ InitWorkers({})
    /\ InitAgents
    /\ InitOrchIdle

NextPopulate ==
    \/ CreateTaskQueue
    \/ Tick

SpecPopulate == InitPopulate /\ [][NextPopulate]_vars

\* ------------------------------- specification: the publish stage
\* The tasks handed to the publisher.
PublishIds == {1, 2}

\* Any of the tasks has a row in tasks, left by page assembly, and any of them
\* an assembled page.
InitPublisher ==
    /\ InitEnv
    /\ \E S \in SUBSET PublishIds :
          db = [t \in S |-> NewRow("page_assembly_complete", NULL, NULL, now)]
    /\ InitWorkers({})
    /\ InitOrchIdle
    /\ seo_research_data = {}
    /\ generated_content = {}
    /\ assembled_pages \in SUBSET PublishIds
    /\ process_result = NoResult
    /\ mon = NoReport

NextPublisher ==
    \/ \E t \in PublishIds, run \in PublishRuns : PublisherProcessTask(t, run)
    \/ \E st \in {"up", "down", "failing"} : SetStore(st)

SpecPublisher == InitPublisher /\ [][NextPublisher]_vars

\* ------------------------------- specification: the four stages
\* The task the stages work on.
StageIds == {1}

\* The task is in the table as create_task_queue left it; no stage has an
\* output.
InitStages ==
    /\ InitEnv
    /\ db = [t \in StageIds |-> NewRow("pending", NULL, NULL, now)]
    /\ InitWorkers({})
    /\ InitAgents
    /\ InitOrchIdle

NextStages ==
    \/ \E t \in StageIds : StageStep(t)
    \/ \E st \in {"up", "down", "failing"} : SetStore(st)

SpecStages == InitStages /\ [][NextStages]_vars

\* ------------------------------- specification: the monitoring
\* Every list of tasks, of every status and updated_at, at every time.
InitMonitor ==
    /\ InitEnv
    /\ db = <<>>
    /\ InitWorkers({})
    /\ InitOrchIdle
    /\ seo_research_data = {}
    /\ generated_content = {}
    /\ assembled_pages = {}
    /\ process_result = NoResult
    /\ \E task_list \in SeqsUpTo(MonTasks, MaxMonTasks) :
          mon = [NoReport EXCEPT !.tasks = task_list]

NextMonitor ==
    \/ \E hours \in Hours : GetRecentErrors(hours)
    \/ \E hours \in Hours : GetCompletionRate(hours)
    \/ Tick

SpecMonitor == InitMonitor /\ [][NextMonitor]_vars

\* ---------------------- specification: status updates and their frame
\* The rows updated, and what the calls pass.
UpdateIds == {1, 2}
UpdateStatuses == {"processing", "published", "failed"}
GivenMessages == {NULL, "new error"}
GivenUrls == {NULL, "https://example.com/new/"}

\* Two rows in progress, each with or without an error_message and a
\* published_url stored by earlier updates.
InitUpdate ==
    /\ InitEnv
    /\ db \in [UpdateIds ->
                 {NewRow("in_progress", e, u, now) :
                     e \in {NULL, "old error"}, u \in {NULL, "https://example.com/old/"}}]
    /\ InitWorkers({})
    /\ InitAgents
    /\ InitOrchIdle

NextUpdate ==
    \/ \E t \in UpdateIds, s \in UpdateStatuses, e \in GivenMessages, u \in GivenUrls :
          UpdateTaskStatus(t, s, e, u)
    \/ Tick

SpecUpdate == InitUpdate /\ [][NextUpdate]_vars

\* --------------- specification: populating again after tasks were worked
\* Two services and one active location at most.
InitRerun ==
    /\ now = 0
    /\ store = "up"
    /\ stats = EmptyDict
    /\ services \in SUBSET {<<"a">>, <<"b">>}
    /\ locations \in SUBSET {<<"1">>}
    /\ runs = 0
    /\ db = <<>>
    /\ InitWorkers({})
    /\ InitAgents
    /\ InitOrchIdle

\* Between the runs of create_task_queue tasks are claimed and fail.
NextRerun ==
    \/ CreateTaskQueue
    \/ \E t \in DOMAIN db, status \in {"in_progress", "failed"} :
          UpdateTaskStatus(t, status, NULL, NULL)
    \/ Tick

SpecRerun == InitRerun /\ [][NextRerun]_vars

\* ------------------------------- specification: the triage list
\* Tasks that failed or ended in error a day and more, two hours and one
\* hour before now.
TriageTasks ==
    [status : {"error", "failed"},
     updated_at : {[kind |-> "naive", at |-> t] : t \in {-30, -2, -1}}]

InitTriage ==
    /\ InitEnv
    /\ db = <<>>
    /\ InitWorkers({})
    /\ InitOrchIdle
    /\ seo_research_data = {}
    /\ generated_content = {}
    /\ assembled_pages = {}
    /\ process_result = NoResult
    \* lists of one task more than the summary shows
    /\ \E task_list \in SeqsUpTo(TriageTasks, ErrorsShown + 1) :
          mon = [NoReport EXCEPT !.tasks = task_list]

SpecTriage == InitTriage /\ [][DisplaySummary]_vars

\* ------------- specification: the driver keeps running, every run returns
\* Three pending tasks, more than a batch holds.
LiveIds == {1, 2, 3}
LiveDrivers == {1}

InitLive ==
    /\ queue = PendingQueue(LiveIds)
    /\ max_tasks_per_batch \in {1, 2}
    /\ concurrent_tasks \in {1, 2}
    /\ InitDrivers(LiveDrivers, LiveIds)
    /\ db = <<>>
    /\ InitWorkers({})
    /\ InitAgents
    /\ InitEnv

\* process_task returns: the runner goes through the stages, or ends silent.
RunnerStep(t) ==
    \/ \E outcome \in Outcomes : RunnerStage(t, outcome)
    \/ RunnerSilent(t)

\* The while loop of start_process is never abandoned, and asyncio runs every
\* coroutine that is awaited.
FairLive ==
    /\ \A d \in LiveDrivers :
          /\ WF_vars(LoadTaskQueue(d))
          /\ WF_vars(MarkAndSaveTaskQueue(d))
          /\ WF_vars(WakeUp(d))
          /\ WF_vars(Dispatch(d))
          /\ WF_vars(GatherFull(d))
          /\ WF_vars(GatherRest(d))
    /\ \A t \in LiveIds : WF_vars(RunnerStep(t))

SpecLive == InitLive /\ [][NextOrch]_vars /\ FairLive

\* ------------------------- specification: an external call that hangs
NextHang ==
    \/ NextOrch
    \/ \E t \in DOMAIN co : Hang(t)

\* As FairLive, except that an awaited process_task returns or hangs.
FairHang ==
    /\ \A d \in LiveDrivers :
          /\ WF_vars(LoadTaskQueue(d))
          /\ WF_vars(MarkAndSaveTaskQueue(d))
          /\ WF_vars(WakeUp(d))
          /\ WF_vars(Dispatch(d))
          /\ WF_vars(GatherFull(d))
          /\ WF_vars(GatherRest(d))
    /\ \A t \in LiveIds : WF_vars(RunnerStep(t) \/ Hang(t))

SpecHang == InitLive /\ [][NextHang]_vars /\ FairHang

\* ------------- specification: drivers that stop, and claim again
\* Two driver processes on one queue file, each of which may stop and be
\* started again; the steps are those of the claim.
InitStop ==
    /\ queue = PendingQueue(QueueIds)
    /\ max_tasks_per_batch \in 1..MaxBatch
    /\ concurrent_tasks = 1
    /\ InitDrivers(TwoDrivers, QueueIds)
    /\ db = <<>>
    /\ InitWorkers({})
    /\ InitAgents
    /\ InitEnv

NextStop ==
    \/ \E d \in TwoDrivers : LoadTaskQueue(d)
    \/ \E d \in TwoDrivers : MarkAndSaveTaskQueue(d)
    \/ \E d \in TwoDrivers : WakeUp(d)
    \/ \E d \in TwoDrivers : Restart(d)

SpecStop == InitStop /\ [][NextStop]_vars

\* ------------------------------------------------------------ claims
\* Statuses after which the coordinator does not continue a task.
TerminalQueueStatuses == {"published", "completed", "failed", "error"}

\* The driver has finished the batch it claimed.
BatchFinished(d) == dpc[d] = "pause"

\* C1: at-most-one-claimant.  Under every interleaving of the workers'
\* get_pending_tasks and mark_tasks_in_progress calls, no task_id is returned
\* as claimed by mark_tasks_in_progress to more than one worker.
C1_AtMostOneClaimant ==
    \A w1 \in DOMAIN claimed, w2 \in DOMAIN claimed :
        w1 # w2 => claimed[w1] \cap claimed[w2] = {}

\* Two workers hold the same task in what they selected, one has marked and
\* got it, the other is about to mark.
C1_Witness ==
    \E w1 \in DOMAIN claimed, w2 \in DOMAIN claimed :
        /\ w1 # w2
        /\ wpc[w1] = "returned"
        /\ wpc[w2] = "selected"
        /\ selected[w2] \cap claimed[w1] # {}

\* C2: two concurrent claims against 15 pending tasks with batch size 10
\* return disjoint sets whose union is the 15 tasks.
C2_ExactCover ==
    (\A w \in DOMAIN wpc : wpc[w] = "returned") =>
        /\ \A w1 \in DOMAIN claimed, w2 \in DOMAIN claimed :
              w1 # w2 => claimed[w1] \cap claimed[w2] = {}
        /\ Cardinality(UNION {claimed[w] : w \in DOMAIN claimed}) = Cardinality(DOMAIN db)

\* C3: when two workers run get_next_pending_tasks concurrently against the
\* same queue, no task is returned to both of them.
C3_ClaimAtomic ==
    \A d1 \in DOMAIN pending_tasks, d2 \in DOMAIN pending_tasks :
        d1 # d2 => SeqRange(pending_tasks[d1]) \cap SeqRange(pending_tasks[d2]) = {}

\* C4: mark_tasks_in_progress changes to in_progress, and returns, exactly
\* the given tasks whose persisted status is pending when it writes; a given
\* task that is not pending is neither changed nor returned, and the other
\* rows are unchanged.
C4_MarkExactlyPending ==
    [][\A w \in DOMAIN wpc :
          (wpc[w] = "selected" /\ wpc'[w] = "returned") =>
              LET given == selected[w]
                  pend == {t \in given : t \in DOMAIN db /\ db[t].status = "pending"}
              IN  /\ claimed'[w] \ claimed[w] = pend
                  /\ DOMAIN db' = DOMAIN db
                  /\ \A t \in pend : db'[t].status = "in_progress"
                  /\ \A t \in DOMAIN db \ pend : db'[t] = db[t]]_vars

\* A worker's mark has returned a task, and another worker is about to mark
\* a list that holds that task, no longer pending, and a pending one.
C4_Witness ==
    \E w1 \in DOMAIN claimed, w2 \in DOMAIN claimed :
        /\ w1 # w2
        /\ wpc[w1] = "returned"
        /\ wpc[w2] = "selected"
        /\ \E t \in selected[w2] \cap claimed[w1] : db[t].status = "in_progress"
        /\ \E t \in selected[w2] : db[t].status = "pending"

\* C5: with 5 pending tasks, concurrency cap 2, batch size 5 and every stage
\* succeeding, after the driver has run the batch all 5 tasks have the status
\* of a finished run (published, which the coordinator writes as completed)
\* and a result.
C5_AllPublished ==
    (BatchFinished(1) /\ \A t \in DOMAIN ret : ret[t] = "completed") =>
        \A t \in DOMAIN queue :
            /\ queue[t].status \in {"published", "completed"}
            /\ queue[t].result # NULL

\* C6: a task whose stage-2 collaborator raised (its run ended in an
\* exception with stage 2 the last stage invoked, so that stages 3 and 4 were
\* not invoked for it) has the persisted status error once the driver has
\* finished the batch.
C6_Stage2RaiseEndsError ==
    \A d \in DOMAIN dpc : \A t \in SeqRange(pending_tasks[d]) :
        (BatchFinished(d) /\ co[t] = "done" /\ ret[t] = "error" /\ stage[t] = 2) =>
            queue[t].status = "error"

\* C7: an exception raised while running one task becomes a result with
\* status error, and the driver still runs every other task of the batch and
\* persists a final status for each of them.
C7_BrokenTaskContained ==
    \A d \in DOMAIN dpc :
        (/\ BatchFinished(d)
         /\ \E t \in SeqRange(pending_tasks[d]) : ret[t] = "error"
         /\ \A t \in SeqRange(pending_tasks[d]) :
               ret[t] \in {"completed", "failed", "error"}) =>
            \A t \in SeqRange(pending_tasks[d]) :
                queue[t].status \in {"completed", "failed", "error"}

\* C8: once a task's persisted status is terminal, no later step of the
\* driver changes it.
C8_TerminalStaysTerminal ==
    [][\A t \in DOMAIN queue :
          queue[t].status \in TerminalQueueStatuses =>
              queue'[t].status = queue[t].status]_vars

\* C9: for every member of the application enum, the status add_task and
\* update_task_status write is one of the eight persisted values, and
\* processing is written as in_progress.
C9_ForwardMappingTotal ==
    /\ \A t \in DOMAIN db : db[t].status \in PersistedStatuses
    /\ (lastCall.op \in {"add_task", "update_task_status"} /\ lastCall.written # NULL) =>
          /\ lastCall.written \in PersistedStatuses
          /\ lastCall.status = "processing" => lastCall.written = "in_progress"

\* update_task_status was called with processing and wrote in_progress.
C9_Witness ==
    /\ lastCall.op = "update_task_status"
    /\ lastCall.status = "processing"
    /\ lastCall.written = "in_progress"
    /\ \E t \in DOMAIN db : db[t].status = "in_progress"

\* C10 as stated: _map_row_to_task never raises, and every status string
\* outside the eight persisted values is mapped to error.
C10_UnrecognizedIsError ==
    lastCall.op = "_map_row_to_task" =>
        /\ lastCall.ret \in TaskStatus
        /\ lastCall.status \notin PersistedStatuses => lastCall.ret = "error"

\* C10 amended: _map_row_to_task never raises, and every status string that
\* is neither one of the eight persisted values nor a value of the
\* application enum is mapped to error.
C10_UnknownIsError ==
    lastCall.op = "_map_row_to_task" =>
        /\ lastCall.ret \in TaskStatus
        /\ lastCall.status \notin (PersistedStatuses \cup TaskStatus) =>
              lastCall.ret = "error"

\* A row with a status no vocabulary knows was mapped, to error.
C10_Witness ==
    /\ lastCall.op = "_map_row_to_task"
    /\ lastCall.status = "unknown_db_status"
    /\ lastCall.ret = "error"

\* C11: round trip from the application side.  For every application status
\* s, the task add_task and update_task_status return after writing s (the
\* stored value read back through _map_row_to_task) has a valid application
\* status that equals s, except for processing, which comes back as
\* in_progress.
C11_RoundTrip ==
    (lastCall.op \in {"add_task", "update_task_status"} /\ lastCall.written # NULL) =>
        /\ lastCall.ret \in TaskStatus
        /\ lastCall.ret = (IF lastCall.status = "processing"
                           THEN "in_progress" ELSE lastCall.status)

\* A status whose persisted spelling differs was written and read back, and
\* so was processing.
C11_Witness ==
    /\ lastCall.op = "add_task"
    /\ lastCall.status = "seo_complete"
    /\ lastCall.written = "seo_research_complete"
    /\ lastCall.ret = "seo_complete"

\* C12: update_task_status on an existing task sets updated_at to the time
\* of the call and, when the new status is published, failed or error, also
\* sets completed_at to it.
C12_UpdateStampsTimes ==
    [][\A t \in DOMAIN db, s \in TaskStatus :
          (store = "up" /\ UpdateTaskStatus(t, s, NULL, NULL)) =>
              /\ db'[t].updated_at = now
              /\ s \in {"published", "failed", "error"} => db'[t].completed_at = now]_vars

\* C13: absence is a result.  get_task_by_id and update_task_status with a
\* task_id that is not in the store return None and leave every row of the
\* store unchanged.
C13_AbsentIsNone ==
    [][\A t \in TaskIds, s \in StoreStatuses :
          (/\ t \notin DOMAIN db
           /\ store = "up"
           /\ GetTaskById(t) \/ UpdateTaskStatus(t, s, NULL, NULL)) =>
              /\ lastCall'.ret = NULL
              /\ db' = db]_vars

\* With the store reachable, holding a row and lacking another, a call for a
\* task returned None.
C13_Witness ==
    /\ store = "up"
    /\ lastCall.op \in {"get_task_by_id", "update_task_status"}
    /\ lastCall.ret = NULL
    /\ DOMAIN db # {}
    /\ \E t \in TaskIds : t \notin DOMAIN db

\* C17: when the store is unreachable or the write statement fails, add_task,
\* mark_tasks_in_progress and update_task_status return their empty result
\* (None, the empty list) and leave every task row unchanged.
C17_FailedWriteChangesNothing ==
    [][\A t \in TaskIds, s \in StoreStatuses, w \in DOMAIN wpc :
          /\ (store # "up" /\ (AddTask(t, s) \/ UpdateTaskStatus(t, s, NULL, NULL))) =>
                 (lastCall'.ret = NULL /\ db' = db)
          /\ (store # "up" /\ MarkTasksInProgress(w)) =>
                 (claimed'[w] \ claimed[w] = {} /\ db' = db)]_vars

\* The store fails while a worker is about to mark a list that holds a
\* pending task.
C17_Witness ==
    /\ store # "up"
    /\ \E w \in DOMAIN wpc :
          /\ wpc[w] = "selected"
          /\ \E t \in selected[w] : db[t].status = "pending"

\* C18: for every status and every limit given (an integer >= 0),
\* get_tasks_by_status returns at most limit tasks, each of which has the
\* requested status, and for processing the empty list.
C18_AtMostLimit ==
    [][\A w \in DOMAIN wpc, s \in TaskStatus, limit \in Limits :
          (limit >= 0 /\ GetTasksByStatus(w, s, limit)) =>
              /\ Cardinality(selected'[w]) <= limit
              /\ \A t \in selected'[w] : MapRowStatus(db[t].status) = s
              /\ s = "processing" => selected'[w] = {}]_vars

\* C14: for every store content, the empty store included, get_queue_stats
\* returns a mapping that has every application status value as a key; the
\* value of a status is the number of rows whose persisted status maps to
\* it, 0 when there is none.
C14_StatsCoverVocabulary ==
    [][(store = "up" /\ GetQueueStats) =>
          /\ TaskStatus \subseteq DOMAIN stats'
          /\ \A s \in TaskStatus :
                stats'[s] = Cardinality({t \in DOMAIN db : MapRowStatus(db[t].status) = s})]_vars

\* The statistics of a store with one seo_research_complete row were read:
\* one seo_complete task, no processing task.
C14_Witness ==
    /\ store = "up"
    /\ lastCall.op = "get_queue_stats"
    /\ \E t \in DOMAIN db : db[t].status = "seo_research_complete"
    /\ TaskStatus \subseteq DOMAIN stats
    /\ stats["seo_complete"] = 1
    /\ stats["processing"] = 0

\* C15: when the statistics query fails with a database error (connection
\* obtained, execute raises), get_queue_stats returns the empty dictionary.
C15_StatsErrorIsEmpty ==
    [][(store = "failing" /\ GetQueueStats) => stats' = EmptyDict]_vars

\* C16: for get_task_by_id, update_task_status, get_tasks_by_status and
\* get_queue_stats, the value returned when the store is unreachable differs
\* from the value returned when the store is reachable and the task is
\* absent (None), the status has no rows (the empty list), or the store is
\* empty (the statistics of no rows).
C16_UnavailableIsDistinguished ==
    [][\A t \in TaskIds, s \in TaskStatus, w \in DOMAIN wpc, limit \in Limits :
          store = "down" =>
              /\ GetTaskById(t) => lastCall'.ret # NULL
              /\ UpdateTaskStatus(t, s, NULL, NULL) => lastCall'.ret # NULL
              /\ GetTasksByStatus(w, s, limit) => selected'[w] # {}
              /\ GetQueueStats =>
                    stats' # CompletedStats(KeyedStats(StatusCounts(<<>>)))]_vars

\* C19: task population is idempotent.  A run of create_task_queue keeps
\* every existing row with its created_at, and a run after the first one over
\* the same services and active locations adds no row (the table holds one
\* row per task_id).
C19_PopulateIdempotent ==
    [][CreateTaskQueue =>
          /\ \A t \in DOMAIN db :
                t \in DOMAIN db' /\ db'[t].created_at = db[t].created_at
          /\ runs >= 1 => DOMAIN db' = DOMAIN db]_vars

\* create_task_queue ran twice and the rows are older than the clock.
C19_Witness ==
    /\ runs = 2
    /\ DOMAIN db # {}
    /\ \A t \in DOMAIN db : db[t].created_at < now

\* C20: task_id is an injective function of (service_id, zip_code): equal
\* task_ids come only from equal combinations, so after a run the table
\* holds a row for each combination of a service and an active location.
C20_TaskIdInjective ==
    runs >= 1 =>
        /\ \A s1 \in services, s2 \in services, z1 \in locations, z2 \in locations :
              TaskId(s1, z1) = TaskId(s2, z2) => (s1 = s2 /\ z1 = z2)
        /\ Cardinality(DOMAIN db) = Cardinality(services) * Cardinality(locations)

\* C26: final statuses are attributed to the right task.  For every batch
\* size and every concurrency cap, once start_process has finished a batch
\* the status persisted for each claimed task is the status process_task
\* returned for that same task.
C26_ResultsAttributed ==
    \A d \in DOMAIN dpc :
        BatchFinished(d) =>
            \A t \in SeqRange(pending_tasks[d]) : queue[t].status = ret[t]

\* C27: no claimed task is left behind.  When start_process has finished a
\* batch (every process_task call of it has returned), no task claimed in it
\* remains in_progress or processing.
C27_NoTaskLeftBehind ==
    \A d \in DOMAIN dpc :
        BatchFinished(d) =>
            \A t \in SeqRange(pending_tasks[d]) :
                queue[t].status \notin {"in_progress", "processing"}

\* The process_task executions in flight: coroutines the driver awaits that
\* have not returned.
InFlight(d) ==
    {t \in SeqRange(tasks[d]) :
        dpc[d] \in {"gather_full", "gather_rest"} /\ co[t] # "done"}

\* C28: concurrency cap.  At every moment at most concurrent_tasks
\* process_task executions are in flight, and no task of the batch has
\* started executing while a task before it in the batch that is not of its
\* group has not returned.
C28_ConcurrencyCap ==
    \A d \in DOMAIN dpc :
        /\ Cardinality(InFlight(d)) <= concurrent_tasks
        /\ \A i \in DOMAIN pending_tasks[d], j \in DOMAIN pending_tasks[d] :
              (/\ i < j
               /\ (stage[pending_tasks[d][j]] > 0 \/ co[pending_tasks[d][j]] = "done")
               /\ pending_tasks[d][i] \notin SeqRange(tasks[d])) =>
                  co[pending_tasks[d][i]] = "done"

\* A full group of two is in flight, one of its tasks at its second stage,
\* and the batch holds a task after the group that was not started.
C28_Witness ==
    \E d \in DOMAIN dpc :
        /\ concurrent_tasks = 2
        /\ Cardinality(InFlight(d)) = 2
        /\ \E t \in InFlight(d) : stage[t] = 2
        /\ Len(pending_tasks[d]) > 2

\* C30: get_next_pending_tasks(limit) returns the first min(limit, p) pending
\* tasks in queue order, p the number of pending tasks; it marks exactly
\* those in_progress and leaves every other task unchanged; with p = 0 it
\* returns the empty list and changes nothing, and the driver sleeps before
\* it polls again.
C30_NextPendingExact ==
    [][\A d \in DOMAIN dpc :
          MarkAndSaveTaskQueue(d) =>
              LET pend == {i \in DOMAIN queue : queue[i].status = "pending"}
                  got == pending_tasks'[d]
                  k == IF Cardinality(pend) < max_tasks_per_batch
                       THEN Cardinality(pend) ELSE max_tasks_per_batch
              IN  /\ Len(got) = k
                  /\ SeqRange(got) \subseteq pend
                  /\ \A a \in DOMAIN got, b \in DOMAIN got : a < b => got[a] < got[b]
                  /\ \A i \in pend \ SeqRange(got) : \A a \in DOMAIN got : got[a] < i
                  /\ DOMAIN queue' = DOMAIN queue
                  /\ \A i \in SeqRange(got) :
                        queue'[i] = [queue[i] EXCEPT !.status = "in_progress"]
                  /\ \A i \in DOMAIN queue \ SeqRange(got) : queue'[i] = queue[i]
                  /\ k = 0 => (got = <<>> /\ dpc'[d] = "sleep")]_vars

\* A claim returned fewer tasks than the limit while another task of the
\* queue was not pending, and the driver of an empty claim sleeps.
C30_Witness ==
    \E d \in DOMAIN dpc :
        /\ dpc[d] = "dispatch"
        /\ pos[d] = 1
        /\ Len(pending_tasks[d]) < max_tasks_per_batch
        /\ pending_tasks[d] # <<>>
        /\ \E i \in DOMAIN queue : queue[i].status \notin {"pending", "in_progress"}

\* C21: single status writer.  No process_task of a stage collaborator (SEO
\* research, content generator, page assembler, publisher) calls
\* update_task_status or changes the status of a row: only the coordinator
\* writes a task's status.
C21_SingleStatusWriter ==
    [][\A t \in StageIds :
          StageStep(t) =>
              /\ process_result'.calls = <<>>
              /\ \A u \in DOMAIN db : db'[u].status = db[u].status]_vars

\* C29: stages are gated.  A process_task reports success for a task only if
\* the output of the preceding stage exists for it: the content generator
\* only with SEO research data, the page assembler only with generated
\* content, the publisher only with an assembled page.
C29_StagesGated ==
    [][\A t \in StageIds :
          /\ ((\E llm \in LlmRuns : ContentProcessTask(t, llm))
                 /\ process_result'.status = "completed") => t \in seo_research_data
          /\ ((\E llm \in LlmRuns : AssemblerProcessTask(t, llm))
                 /\ process_result'.status = "completed") => t \in generated_content
          /\ ((\E run \in PublishRuns : PublisherProcessTask(t, run))
                 /\ process_result'.status = "published") => t \in assembled_pages]_vars

\* C22: a publication carries its URL.  A process_task of the publisher that
\* returns status published made exactly one update_task_status call, with
\* PUBLISHED and a non-empty URL together, and returns that URL; the row the
\* store updated holds both; a row in published always has a published_url.
C22_PublishedHasUrl ==
    [][\A t \in PublishIds, run \in PublishRuns :
          PublisherProcessTask(t, run) =>
              /\ process_result'.status = "published" =>
                    /\ process_result'.url \notin {NULL, ""}
                    /\ process_result'.calls =
                          <<StatusCall("published", NULL, process_result'.url)>>
                    /\ (t \in DOMAIN db /\ store = "up") =>
                          /\ db'[t].status = "published"
                          /\ db'[t].published_url = process_result'.url
              /\ \A c \in SeqRange(process_result'.calls) :
                    c.status = "published" => c.url \notin {NULL, ""}
              /\ \A u \in DOMAIN db :
                    db'[u].status = "published" => db'[u].published_url \notin {NULL, ""}]_vars

\* The publisher published a task whose row had been failed before: the row
\* is in published with the URL the call returned.
C22_Witness ==
    \E t \in DOMAIN db :
        /\ process_result.agent = "publisher"
        /\ process_result.task_id = t
        /\ process_result.status = "published"
        /\ db[t].status = "published"
        /\ db[t].published_url = process_result.url
        /\ db[t].error_message # NULL

\* C23: without an assembled page for the task, process_task of the
\* publisher returns status error with the message that names the missing
\* page, calls no update_task_status and leaves the persisted status of the
\* task as it was.
C23_MissingPageWritesNothing ==
    [][\A t \in PublishIds, run \in PublishRuns :
          (t \notin assembled_pages /\ PublisherProcessTask(t, run)) =>
              /\ process_result'.status = "error"
              /\ process_result'.message = NotFoundMessage
              /\ process_result'.calls = <<>>
              /\ db' = db]_vars

\* C24: when the publish tool reports an error, process_task of the
\* publisher persists FAILED with the tool's error message exactly once and
\* returns status failed, the status it persisted.
C24_ToolErrorIsFailed ==
    [][\A t \in PublishIds, run \in {"tool_error_message", "tool_error_plain"} :
          (IsPageAssembled(t) /\ PublisherProcessTask(t, run)) =>
              /\ process_result'.calls = <<StatusCall("failed", ToolError, NULL)>>
              /\ process_result'.status = "failed"]_vars

\* C25: in get_completion_rate and get_recent_errors a task whose updated_at
\* is missing or unparseable is not in the result, and no list of tasks
\* makes them raise.
C25_BadStampsSkipped ==
    mon.op # "none" =>
        /\ mon.raised = NULL
        /\ \A i \in mon.counted :
              mon.tasks[i].updated_at.kind \notin
                  {"absent", "none", "empty", "number", "text"}
        /\ mon.op = "get_completion_rate" =>
              mon.rate.num = (IF mon.hours > 0 THEN Cardinality(mon.counted) ELSE 0)

\* A calculation returned a count of one for a list that holds a task with
\* the status counted and an updated_at that is no string.
C25_Witness ==
    /\ mon.op = "get_completion_rate"
    /\ mon.raised = NULL
    /\ mon.hours > 0
    /\ Cardinality(mon.counted) = 1
    /\ \E i \in DOMAIN mon.tasks :
          /\ mon.tasks[i].status = "completed"
          /\ mon.tasks[i].updated_at.kind = "number"

\* C34: every status the coordinator persists for a task (on claim, on
\* dispatch, and as the final status of a run) is a member of the
\* application status vocabulary TaskStatus.
C34_StatusInVocabulary ==
    \A t \in DOMAIN queue : queue[t].status \in TaskStatus

\* C36: update_task_status changes only the addressed row.  It sets status
\* and updated_at, error_message only when one is given and published_url
\* only when one is given; the row's other fields, an error_message or URL
\* stored before included, and the rows of the other tasks are unchanged.
C36_UpdateFrame ==
    [][\A t \in UpdateIds, s \in UpdateStatuses, e \in GivenMessages, u \in GivenUrls :
          UpdateTaskStatus(t, s, e, u) =>
              /\ DOMAIN db' = DOMAIN db
              /\ db'[t].status = ToDbStatus(s)
              /\ db'[t].updated_at = now
              /\ db'[t].error_message = (IF e # NULL THEN e ELSE db[t].error_message)
              /\ db'[t].published_url = (IF u # NULL THEN u ELSE db[t].published_url)
              /\ db'[t].created_at = db[t].created_at
              /\ db'[t].completed_at = db[t].completed_at
              /\ \A o \in DOMAIN db \ {t} : db'[o] = db[o]]_vars

\* A row keeps the error_message stored before through an update that gave
\* a URL only, at a later time, next to a row never updated.
C36_Witness ==
    \E t \in DOMAIN db, o \in DOMAIN db :
        /\ t # o
        /\ db[t].status = "published"
        /\ db[t].error_message = "old error"
        /\ db[t].published_url = "https://example.com/new/"
        /\ db[t].updated_at > db[t].created_at
        /\ db[o].status = "in_progress"
        /\ db[o].updated_at = db[o].created_at
        /\ now > db[o].updated_at

\* C35: when create_task_queue runs again for a task_id that has a row, the
\* row's mutable fields are updated to the supplied values (the status to
\* the supplied pending) while its created_at is preserved.
C35_RerunUpdatesRow ==
    [][(CreateTaskQueue /\ services # {} /\ locations # {} /\ store = "up") =>
          \A service_id \in services, zip_code \in locations :
              LET t == TaskId(service_id, zip_code)
              IN  t \in DOMAIN db =>
                     /\ db'[t].status = "pending"
                     /\ db'[t].created_at = db[t].created_at]_vars

\* C37: the triage list of display_summary.  Every task in status failed or
\* error whose updated_at lies inside the trailing window is eligible, and
\* the tasks shown are, of the eligible ones, those with the latest
\* updated_at, as many as the list holds.
C37_TriageMostRecent ==
    mon.op = "display_summary" =>
        LET eligible == {i \in DOMAIN mon.tasks :
                            /\ mon.tasks[i].status \in {"failed", "error"}
                            /\ mon.tasks[i].updated_at.at > now - ErrorHours}
            shown == SeqRange(mon.shown)
        IN  /\ mon.counted = eligible
            /\ shown \subseteq eligible
            /\ Cardinality(shown) =
                  (IF Cardinality(eligible) < ErrorsShown
                   THEN Cardinality(eligible) ELSE ErrorsShown)
            /\ \A i \in shown, j \in eligible \ shown :
                  mon.tasks[i].updated_at.at >= mon.tasks[j].updated_at.at

\* C31: pending tasks are eventually claimed.  While the driver loop keeps
\* running and every stage call returns, every task whose status is pending
\* is eventually returned by get_next_pending_tasks and marked in_progress.
C31_PendingEventuallyClaimed ==
    \A t \in LiveIds :
        (queue[t].status = "pending") ~>
            (queue[t].status = "in_progress"
             /\ \E d \in LiveDrivers : t \in SeqRange(pending_tasks[d]))

\* The last task of the queue is claimed in a batch of its own after the
\* first batch was finished.
C31_Witness ==
    /\ queue[3].status = "in_progress"
    /\ pending_tasks[1] = <<3>>
    /\ queue[1].status \notin {"pending", "in_progress", "processing"}

\* C32: each stage call carries an enforced timeout.  A process_task whose
\* external call never returns eventually gives up its slot: the call ends,
\* the gather that awaits it returns, and the driver finishes the group.
C32_HungCallGivesUpSlot ==
    /\ \A t \in LiveIds : (co[t] = "hung") ~> (co[t] = "done")
    /\ \A d \in LiveDrivers :
          (dpc[d] \in {"gather_full", "gather_rest"}) ~>
              (dpc[d] \notin {"gather_full", "gather_rest"})

\* C33: no reclaim.  Once the status of a task has left pending, no claim
\* and no step of a driver sets it back to pending; a task in in_progress
\* that no running driver holds (its worker stopped) stays in_progress.
C33_NoReclaim ==
    [][\A t \in DOMAIN queue :
          /\ queue[t].status # "pending" => queue'[t].status # "pending"
          /\ (/\ queue[t].status = "in_progress"
              /\ \A d \in DOMAIN dpc : t \notin SeqRange(pending_tasks[d])) =>
                 queue'[t].status = "in_progress"]_vars

====
